---- MODULE Spec2Model ----
(***************************************************************************)
(* A model of pretalx's activity log: LogMixin.log_action, the retention   *)
(* sweep (management command archive_activity_logs) and the legacy-data    *)
(* migration (management command migrate_activity_logs), over one entry    *)
(* store.  Time is counted in days.                                        *)
(***************************************************************************)
EXTENDS Integers, Sequences, FiniteSets, TLC

\* ------------------------------------------------------------------ bounds

\* The days on which something happens: between them entries age past the
\* sweep's thresholds of 30 and 90 days.
Days == {0, 50, 100}
\* At most MaxLogs entries are ever created (ids 1..MaxLogs), of which up to
\* MaxLegacy are rows of an older version that exist from the start.
MaxLogs == 3
MaxLegacy == 2
\* Batch sizes 1..MaxBatch are tried.
MaxBatch == 2
\* Login requests 1..MaxClients are handled at the same time.
MaxClients == 2
\* Tasks 1..MaxTasks are applied, with max_retries in 0..MaxRetries.
MaxTasks == 2
MaxRetries == 2
\* The codes generate_code draws from are 1..MaxCodes.
MaxCodes == 3

\* ------------------------------------------------------- program constants

\* archive_activity_logs.py: `if older_than_days < 90`
MinAgeDays == 90

\* mixins.py: SENSITIVE_KEYS = ["password", "secret", "api_key"]
SENSITIVE_KEYS == {"password", "secret", "api_key"}

\* ------------------------------------------------------------------ values

\* Python values that reach log_action, tagged by type.
PyNone == [t |-> "none"]
PyStr(s) == [t |-> "str", s |-> s]
PyDict(m) == [t |-> "dict", m |-> m]
\* A list; `n` is its length (0: the empty, falsy list).
PyList(n) == [t |-> "list", n |-> n]
\* A number.
PyNum(n) == [t |-> "num", n |-> n]
\* A value json.dumps cannot serialize (a datetime, a model instance).
PyObj == [t |-> "obj"]

\* bool(value) in Python.
Truthy(v) ==
    CASE v.t = "none" -> FALSE
      [] v.t = "str" -> v.s # ""
      [] v.t = "dict" -> DOMAIN v.m # {}
      [] v.t = "list" -> v.n > 0
      [] v.t = "num" -> v.n # 0
      [] OTHER -> TRUE

\* A key of a payload is a string, kept as the sequence of its parts, so that
\* `sensitive_key in key` (a substring test) can be computed.
KeyContains(key, term) == \E i \in DOMAIN key : key[i] = term

\* Primary keys: None, an int, or a str (a model with a non-integer key).
PkNone == [kind |-> "none", val |-> 0]
PkInt(n) == [kind |-> "int", val |-> n]
PkStr == [kind |-> "str", val |-> 1]

\* `not pk`
PkFalsy(pk) == pk.kind = "none" \/ (pk.kind = "int" /\ pk.val = 0)

NoEvent == "none"
\* The events (tenants) of the installation, by slug.
Events == {"e1", "e2"}

\* The entities log_action is called on: persisted ones with and without an
\* event and a log_prefix, an unsaved one, one whose key is no int.
Submission1 == [name |-> "sub1", pk |-> PkInt(1), event |-> "e1", log_prefix |-> "pretalx.submission"]
Event2 == [name |-> "ev2", pk |-> PkInt(2), event |-> "e2", log_prefix |-> "pretalx.event"]
User3 == [name |-> "user3", pk |-> PkInt(3), event |-> NoEvent, log_prefix |-> ""]
Unsaved == [name |-> "new", pk |-> PkNone, event |-> "e1", log_prefix |-> "pretalx.submission"]
StrKeyed == [name |-> "strpk", pk |-> PkStr, event |-> "e1", log_prefix |-> ""]
Entities == {Submission1, Event2, User3, Unsaved, StrKeyed}

\* content_object=None: the argument was not given.
NoObject == [name |-> "", pk |-> PkNone, event |-> NoEvent, log_prefix |-> ""]

\* ------------------------------------------------------------- log_action

\* dict.get(key): None for a missing key.
DictGet(m, key) == IF key \in DOMAIN m THEN m[key] ELSE PyNone

\* _compute_changes over the fields of the new snapshot only (a variant of
\* ComputeChanges).
ComputeChangesNewKeys(old_data, new_data) ==
    LET changed == {key \in DOMAIN new_data : DictGet(old_data, key) # DictGet(new_data, key)}
    IN  [key \in changed |->
            PyDict((<<"old">> :> DictGet(old_data, key))
                   @@ (<<"new">> :> DictGet(new_data, key)))]

\* _compute_changes without the skip of equal values (a variant of
\* ComputeChanges).
ComputeChangesAll(old_data, new_data) ==
    [key \in DOMAIN old_data \cup DOMAIN new_data |->
        PyDict((<<"old">> :> DictGet(old_data, key))
               @@ (<<"new">> :> DictGet(new_data, key)))]

\* LogMixin._compute_changes: {field: {"old": .., "new": ..}} for every field of
\* either snapshot whose values differ.
ComputeChanges(old_data, new_data) ==
    LET all_keys == DOMAIN old_data \cup DOMAIN new_data
        changed == {key \in all_keys : DictGet(old_data, key) # DictGet(new_data, key)}
    IN  [key \in changed |->
            PyDict((<<"old">> :> DictGet(old_data, key))
                   @@ (<<"new">> :> DictGet(new_data, key)))]

\* any(sensitive_key in key for sensitive_key in SENSITIVE_KEYS)
IsSensitive(key) == \E term \in SENSITIVE_KEYS : KeyContains(key, term)

\* The masking loop without the test of the value (a variant of MaskSensitive).
MaskSensitiveAll(m) ==
    [key \in DOMAIN m |-> IF IsSensitive(key) THEN PyStr("********") ELSE m[key]]

\* The masking loop of log_action over the top-level keys of the payload.
MaskSensitive(m) ==
    [key \in DOMAIN m |->
        IF IsSensitive(key) /\ Truthy(m[key]) THEN PyStr("********") ELSE m[key]]

\* json.dumps taken to accept every value (a variant of Serializable).
SerializableAlways(v) == TRUE

\* Whether json.dumps(value) succeeds.
RECURSIVE Serializable(_)
Serializable(v) ==
    CASE v.t = "obj" -> FALSE
      [] v.t = "dict" -> \A key \in DOMAIN v.m : Serializable(v.m[key])
      [] OTHER -> TRUE

\* No action name taken as relative (a variant of StartsWithDot).
StartsWithDotNever(action) == FALSE

\* action.startswith(".")
StartsWithDot(action) == action[1] = "."

\* What one call of log_action does: nothing ("noop", returns None), raises
\* ("raise"), or hands an entry to ActivityLog.objects.create ("create").
LogActionOutcome(self, action, data, content_object, old_data, new_data) ==
    LET noop == [kind |-> "noop"]
        raise == [kind |-> "raise"]
        action_type == IF StartsWithDot(action) THEN <<self.log_prefix>> \o action ELSE action
        changes == IF old_data.t = "dict" /\ new_data.t = "dict"
                   THEN ComputeChanges(old_data.m, new_data.m) ELSE <<>>
        tracked == old_data.t # "none" /\ new_data.t # "none"
        \* data after `data["changes"] = changes`
        merged == IF tracked /\ DOMAIN changes # {}
                  THEN (IF data.t = "none"
                        THEN PyDict(<<"changes">> :> PyDict(changes))
                        ELSE PyDict((<<"changes">> :> PyDict(changes)) @@ data.m))
                  ELSE data
        masked == IF Truthy(merged) THEN PyDict(MaskSensitive(merged.m)) ELSE merged
        stored == IF masked.t # "none" /\ ~Serializable(masked) THEN PyNone ELSE masked
        subject == IF content_object # NoObject THEN content_object ELSE self
    IN  IF PkFalsy(self.pk) \/ self.pk.kind # "int" THEN noop
        ELSE IF StartsWithDot(action) /\ self.log_prefix = "" THEN noop
        ELSE IF tracked /\ DOMAIN changes = {} /\ ~Truthy(data) THEN noop
        ELSE IF tracked /\ DOMAIN changes # {} /\ data.t \notin {"none", "dict"} THEN raise
        ELSE IF Truthy(merged) /\ merged.t # "dict" THEN raise
        ELSE [kind |-> "create", event |-> self.event, subject |-> subject,
              action_type |-> action_type, data |-> stored]

\* ------------------------------------------------------------------ state

VARIABLES
    now,        \* the clock, in days
    logs,       \* the entry store: the set of ActivityLog rows
    nextId,     \* the next value of the id sequence
    call,       \* the arguments of the latest log_action call
    result,     \* what the latest log_action call did
    sweep,      \* per archive_activity_logs process: its options and locals
    files,      \* per archive_activity_logs process: its archive and metadata file
    deleted,    \* history: the entries each sweep has deleted
    atStart,    \* history: the store as it was when each sweep counted its entries
    migrate,    \* the migrate_activity_logs process: its options and locals
    view,       \* what the latest retrieval returned
    eval,       \* the latest evaluation of a pure function or predicate
    login,      \* the login form: the rate-limit cache and the requests in flight
    tasks,      \* the background tasks: their options, their jobs and their runs
    deletion,   \* the entities with a log parent that exist, and the latest delete() call
    saver       \* GenerateCode.save: the codes in the table, the object and the call

vars == <<now, logs, nextId, call, result, sweep, files, deleted, atStart, migrate, view, eval,
          login, tasks, deletion, saver>>
logVars == <<now, logs, nextId, call, result, migrate, view, eval>>
sweepVars == <<sweep, files, deleted, atStart>>
\* The state outside the activity log and the permission rules.
otherVars == <<login, tasks, deletion, saver>>

NoPerson == "none"

\* ActivityLog.objects.create(event=, person=, content_object=, action_type=,
\* data=, is_orga_action=): the row it inserts.  The id comes from the
\* sequence, the timestamp is the time of creation, legacy_data is not set.
NewEntry(outcome, person, orga) ==
    [id |-> nextId,
     timestamp |-> now,
     event |-> outcome.event,
     person |-> person,
     content_type |-> outcome.subject.name,
     object_id |-> outcome.subject.pk,
     action_type |-> outcome.action_type,
     data |-> outcome.data,
     legacy_data |-> PyNone,
     is_orga_action |-> orga]

\* One call of log_action.  The id sequence is bounded by MaxLogs.  `call` and
\* `deletion` are left to the caller: LogActionCall records the arguments,
\* LiveTraffic does not, and Delete logs as part of a deletion.
LogAction(self, action, data, person, orga, content_object, old_data, new_data) ==
    LET outcome == LogActionOutcome(self, action, data, content_object, old_data, new_data)
    IN  /\ IF outcome.kind = "create"
           THEN /\ nextId <= MaxLogs
                /\ logs' = logs \cup {NewEntry(outcome, person, orga)}
                /\ nextId' = nextId + 1
                /\ result' = [kind |-> "entry", id |-> nextId]
           ELSE /\ result' = [kind |-> outcome.kind, id |-> 0]
                /\ UNCHANGED <<logs, nextId>>
        /\ UNCHANGED <<now, sweepVars, migrate, view, eval, login, tasks, saver>>

\* A call of log_action whose arguments are recorded.
LogActionCall(self, action, data, person, orga, content_object, old_data, new_data) ==
    /\ LogAction(self, action, data, person, orga, content_object, old_data, new_data)
    /\ call' = [self |-> self, action |-> action, data |-> data, person |-> person,
                orga |-> orga, content_object |-> content_object,
                old_data |-> old_data, new_data |-> new_data]
    /\ UNCHANGED deletion

\* Live request traffic: a view logs an action on an entity it has saved.
LiveTraffic(self) ==
    /\ LogAction(self, <<"test.update">>, PyNone, NoPerson, FALSE, NoObject, PyNone, PyNone)
    /\ UNCHANGED <<call, deletion>>

\* Time passes, to the next of the Days.
Tick ==
    /\ \E day \in Days : day > now
    /\ now' = CHOOSE day \in Days : day > now /\ \A other \in Days : other > now => day <= other
    /\ UNCHANGED <<logs, nextId, call, result, sweepVars, migrate, view, eval, otherVars>>

\* --------------------------------------------------------- LogMixin.delete

\* The entities that delete() is called on: with a log_parent (a saved entity)
\* or without one, with a log_prefix or without one.
Children ==
    {[name |-> n, log_parent |-> lp, log_prefix |-> lx] :
        n \in {"answer"}, lp \in {NoObject, Submission1, Event2},
        lx \in {"", "pretalx.submission.answer"}}

\* No delete() call has been made.
NoDelete == [self |-> [name |-> "", log_parent |-> NoObject, log_prefix |-> ""],
             raised |-> FALSE]

\* `parent and getattr(parent, "log_action", None)`, for any prefix (a variant
\* of LogsDeletion).
LogsDeletionAnyPrefix(self) == self.log_parent # NoObject

\* `parent and getattr(parent, "log_action", None) and self.log_prefix`
LogsDeletion(self) == self.log_parent # NoObject /\ self.log_prefix # ""

\* LogMixin.delete(log_kwargs=...): super().delete() raises, leaving the row, or
\* removes it; then the deletion is logged on the parent.
Delete(self, raises, data, person, orga) ==
    /\ self \in deletion.existing
    /\ deletion' = [existing |-> IF raises THEN deletion.existing
                                 ELSE deletion.existing \ {self},
                    last |-> [self |-> self, raised |-> raises]]
    /\ IF ~raises /\ LogsDeletion(self)
       THEN LogAction(self.log_parent, <<self.log_prefix, ".", "delete">>, data, person,
                      orga, NoObject, PyNone, PyNone)
       ELSE UNCHANGED <<logVars, sweepVars, login, tasks, saver>>
    /\ UNCHANGED call

\* ------------------------------------------------- archive_activity_logs

\* The processes that run the retention sweep.
Procs == {"sweep1"}

\* An optional value: <<>> is None, <<x>> is x.
None == <<>>
Some(x) == <<x>>

Min(a, b) == IF a < b THEN a ELSE b

\* seq[lo:hi] of Python: on a queryset, OFFSET lo LIMIT hi - lo.
Slice(seq, lo, hi) == SubSeq(seq, lo + 1, Min(hi, Len(seq)))

\* The ids of a set of entries in the order a queryset yields them: newest
\* first.
RECURSIVE OrderedIds(_)
OrderedIds(entries) ==
    IF entries = {} THEN <<>>
    ELSE LET first == CHOOSE e \in entries : \A o \in entries : o.id <= e.id
         IN  <<first.id>> \o OrderedIds(entries \ {first})

Range(seq) == {seq[i] : i \in DOMAIN seq}

\* The queryset without the event filter (a variant of Queryset).
QuerysetAnyEvent(store, cutoff_date, event_slug) ==
    {log \in store : log.timestamp < cutoff_date}

\* ActivityLog.objects.filter(timestamp__lt=cutoff_date), and .filter(event=event)
\* when a slug is given, evaluated on the store as it is now.
Queryset(store, cutoff_date, event_slug) ==
    {log \in store : /\ log.timestamp < cutoff_date
                     /\ (event_slug # "" => log.event = event_slug)}

\* ActivityLog.objects.filter(id__in=batch_ids), as the sequence of rows.
RECURSIVE RowsOf(_, _)
RowsOf(store, ids) ==
    IF ids = <<>> THEN <<>>
    ELSE LET hit == {log \in store : log.id = Head(ids)}
         IN  (IF hit = {} THEN <<>> ELSE <<CHOOSE log \in hit : TRUE>>)
             \o RowsOf(store, Tail(ids))

\* A process that is not running the command.
IdleSweep ==
    [pc |-> "idle", older_than_days |-> 0, event_slug |-> "", archive_path |-> FALSE,
     dry_run |-> FALSE, batch_size |-> 0, cutoff_date |-> 0, started |-> 0,
     total_count |-> 0,
     processed |-> 0, batch_ids |-> <<>>, archived_count |-> 0, deleted_count |-> 0,
     archive_file |-> FALSE]

\* No archive file, no metadata file.  `written` are the lines given to
\* archive_file.write, of which the first `flushed` have reached the file.
NoFiles == [exists |-> FALSE, written |-> <<>>, flushed |-> 0, metadata |-> None]

\* The lines of the archive file on disk.
OnDisk(p) == SubSeq(files[p].written, 1, files[p].flushed)

Running == {"loop", "archive", "delete", "finish"}

\* The safety check with a floor of 30 days (a variant of BelowMinimumAge).
BelowMinimumAge30(older_than_days) == older_than_days < 30

\* The safety check: `older_than_days < 90`.
BelowMinimumAge(older_than_days) == older_than_days < MinAgeDays

\* The cutoff with the sign of the threshold reversed (a variant of CutoffDate).
CutoffDateAhead(today, older_than_days) == today + older_than_days

\* cutoff_date = now() - timedelta(days=older_than_days)
CutoffDate(today, older_than_days) == today - older_than_days

\* An archive written in a dry run too (a variant of WritesArchive).
WritesArchiveAlways(archive_path, dry_run) == archive_path

\* `if archive_path and not dry_run`: whether an archive is written.
WritesArchive(archive_path, dry_run) == archive_path /\ ~dry_run

\* handle(), from its start to the batch loop: the safety check, the cutoff,
\* the event lookup, the count, the confirmation and the opening of the archive.
\* `confirm` is "skip" with --yes, else the operator's answer.
SweepStart(p, older_than_days, event_slug, archive_path, dry_run, batch_size, confirm) ==
    LET cutoff_date == CutoffDate(now, older_than_days)
        total_count == Cardinality(Queryset(logs, cutoff_date, event_slug))
        opts == [IdleSweep EXCEPT !.older_than_days = older_than_days,
                                  !.event_slug = event_slug,
                                  !.archive_path = archive_path,
                                  !.dry_run = dry_run,
                                  !.batch_size = batch_size]
        opens == WritesArchive(archive_path, dry_run)
    IN  /\ sweep[p].pc = "idle"
        /\ IF BelowMinimumAge(older_than_days)
           THEN /\ sweep' = [sweep EXCEPT ![p] = [opts EXCEPT !.pc = "error"]]
                /\ files' = [files EXCEPT ![p] = NoFiles]
           ELSE IF event_slug # "" /\ event_slug \notin Events
           THEN /\ sweep' = [sweep EXCEPT ![p] =
                                [opts EXCEPT !.pc = "error", !.started = now,
                                             !.cutoff_date = cutoff_date]]
                /\ files' = [files EXCEPT ![p] = NoFiles]
           ELSE IF total_count = 0
           THEN /\ sweep' = [sweep EXCEPT ![p] =
                                [opts EXCEPT !.pc = "done", !.started = now,
                                             !.cutoff_date = cutoff_date]]
                /\ files' = [files EXCEPT ![p] = NoFiles]
           ELSE IF ~dry_run /\ confirm = "n"
           THEN /\ sweep' = [sweep EXCEPT ![p] =
                                [opts EXCEPT !.pc = "cancelled", !.started = now,
                                             !.cutoff_date = cutoff_date,
                                             !.total_count = total_count]]
                /\ files' = [files EXCEPT ![p] = NoFiles]
           ELSE /\ sweep' = [sweep EXCEPT ![p] =
                                [opts EXCEPT !.pc = "loop", !.started = now,
                                             !.cutoff_date = cutoff_date,
                                             !.total_count = total_count,
                                             !.archive_file = opens]]
                /\ files' = [files EXCEPT ![p] = [NoFiles EXCEPT !.exists = opens]]
        /\ atStart' = [atStart EXCEPT ![p] = logs]
        /\ UNCHANGED <<logVars, deleted, otherVars>>

\* The head of the batch loop: the loop test, the slice of ids of the queryset (as
\* it is now) at offset `processed`, and the break on an empty batch.  In a dry
\* run without archive nothing else happens in the iteration.
FetchBatch(p) ==
    LET s == sweep[p]
        batch_ids == Slice(OrderedIds(Queryset(logs, s.cutoff_date, s.event_slug)),
                           s.processed, s.processed + s.batch_size)
    IN  /\ s.pc = "loop"
        /\ IF ~(s.processed < s.total_count) \/ batch_ids = <<>>
           THEN sweep' = [sweep EXCEPT ![p].pc = "finish"]
           ELSE IF s.archive_file
           THEN sweep' = [sweep EXCEPT ![p].pc = "archive", ![p].batch_ids = batch_ids]
           ELSE IF ~s.dry_run
           THEN sweep' = [sweep EXCEPT ![p].pc = "delete", ![p].batch_ids = batch_ids]
           ELSE sweep' = [sweep EXCEPT ![p].batch_ids = batch_ids,
                                       ![p].processed = s.processed + Len(batch_ids)]
        /\ UNCHANGED <<logVars, files, deleted, atStart, otherVars>>

\* The archive loop of one batch, every write succeeding: one line per row of the
\* batch.  The file object buffers: any number of the lines written so far may
\* have reached the file.
ArchiveBatch(p) ==
    LET s == sweep[p]
        batch == RowsOf(logs, s.batch_ids)
        written == files[p].written \o batch
    IN  /\ s.pc = "archive"
        /\ \E flushed \in files[p].flushed .. Len(written) :
              files' = [files EXCEPT ![p].written = written, ![p].flushed = flushed]
        /\ sweep' = [sweep EXCEPT ![p].pc = "delete",
                                  ![p].archived_count = s.archived_count + Len(batch)]
        /\ UNCHANGED <<logVars, deleted, atStart, otherVars>>

\* The archive loop of one batch when the write of a record raises after `k`
\* records: the finally clause closes the file, which flushes the buffered
\* lines unless the close fails too, and the error leaves handle().
ArchiveFail(p, k, close_ok) ==
    LET s == sweep[p]
        batch == RowsOf(logs, s.batch_ids)
        written == files[p].written \o SubSeq(batch, 1, k)
    IN  /\ s.pc = "archive"
        /\ k < Len(batch)
        /\ IF close_ok
           THEN files' = [files EXCEPT ![p].written = written, ![p].flushed = Len(written)]
           ELSE \E flushed \in files[p].flushed .. Len(written) :
                   files' = [files EXCEPT ![p].written = written, ![p].flushed = flushed]
        /\ sweep' = [sweep EXCEPT ![p].pc = "failed",
                                  ![p].archived_count = s.archived_count + k]
        /\ UNCHANGED <<logVars, deleted, atStart, otherVars>>

\* The delete of one batch, in its transaction, and the end of the iteration.
DeleteBatch(p) ==
    LET s == sweep[p]
        rows == {log \in logs : log.id \in Range(s.batch_ids)}
    IN  /\ s.pc = "delete"
        /\ logs' = logs \ rows
        /\ deleted' = [deleted EXCEPT ![p] = @ \cup rows]
        /\ sweep' = [sweep EXCEPT ![p].pc = "loop",
                                  ![p].deleted_count = s.deleted_count + Cardinality(rows),
                                  ![p].processed = s.processed + Len(s.batch_ids)]
        /\ UNCHANGED <<now, nextId, call, result, files, atStart, migrate, view, eval, otherVars>>

\* The metadata with the count taken at the start as total_logs (a variant of
\* Metadata).
MetadataCounted(s) ==
    [cutoff_date |-> s.cutoff_date, event_slug |-> s.event_slug,
     total_logs |-> s.total_count, batch_size |-> s.batch_size]

\* The sidecar metadata of a run (created_at left out).
Metadata(s) ==
    [cutoff_date |-> s.cutoff_date, event_slug |-> s.event_slug,
     total_logs |-> s.archived_count, batch_size |-> s.batch_size]

\* After the loop: the finally clause closes the archive, then the metadata
\* file is written.  A close that fails leaves handle() with the error.
Finish(p, close_ok) ==
    LET s == sweep[p]
    IN  /\ s.pc = "finish"
        /\ IF ~s.archive_file
           THEN /\ close_ok
                /\ sweep' = [sweep EXCEPT ![p].pc = "done"]
                /\ UNCHANGED files
           ELSE IF close_ok
           THEN /\ sweep' = [sweep EXCEPT ![p].pc = "done"]
                /\ files' = [files EXCEPT
                       ![p].flushed = Len(files[p].written),
                       ![p].metadata = Some(Metadata(s))]
           ELSE /\ sweep' = [sweep EXCEPT ![p].pc = "close_failed"]
                /\ UNCHANGED files
        /\ UNCHANGED <<logVars, deleted, atStart, otherVars>>

\* The process is stopped inside the loop (an interrupt raises there): the
\* finally clause closes the archive.
Interrupt(p) ==
    /\ sweep[p].pc \in {"loop", "archive", "delete"}
    /\ sweep' = [sweep EXCEPT ![p].pc = "stopped"]
    /\ files' = [files EXCEPT ![p].flushed = Len(files[p].written)]
    /\ UNCHANGED <<logVars, deleted, atStart, otherVars>>

\* The process dies (kill, power loss): nothing more runs, and what the file
\* object had buffered is lost.
Crash(p) ==
    /\ sweep[p].pc \in Running
    /\ sweep' = [sweep EXCEPT ![p].pc = "crashed"]
    /\ UNCHANGED <<logVars, files, deleted, atStart, otherVars>>

\* ------------------------------------------------- migrate_activity_logs

\* The legacy_data texts that occur: empty, a JSON object, an empty JSON
\* object, and text that is no JSON.
LegacyTexts == {"", "{\"title\": \"A\"}", "{}", "oops"}

\* Whether json.loads(text) succeeds.
JsonValid(text) == text \in {"{\"title\": \"A\"}", "{}"}

\* json.loads(text) for the valid texts.
JsonLoads(text) ==
    IF text = "{}" THEN PyDict(<<>>) ELSE PyDict(<<"title">> :> PyStr("A"))

\* The rows with legacy_data, whatever their data (a variant of MigrateQueryset).
MigrateQuerysetAnyData(store) ==
    {log \in store : log.legacy_data # PyNone /\ log.legacy_data # PyStr("")}

\* filter(legacy_data__isnull=False).exclude(legacy_data="")
\*   .filter(Q(data__isnull=True) | Q(data={}))
MigrateQueryset(store) ==
    {log \in store : /\ log.legacy_data # PyNone
                     /\ log.legacy_data # PyStr("")
                     /\ (log.data = PyNone \/ log.data = PyDict(<<>>))}

IdleMigrate ==
    [pc |-> "idle", dry_run |-> FALSE, batch_size |-> 0, total_count |-> 0,
     processed |-> 0, migrated_count |-> 0, error_count |-> 0]

\* handle(), up to the batch loop: the count, and the return when it is 0.
MigrateStart(dry_run, batch_size) ==
    LET total_count == Cardinality(MigrateQueryset(logs))
    IN  /\ migrate.pc \in {"idle", "done"}
        /\ migrate' = [IdleMigrate EXCEPT !.pc = IF total_count = 0 THEN "done" ELSE "loop",
                                          !.dry_run = dry_run,
                                          !.batch_size = batch_size,
                                          !.total_count = total_count]
        /\ UNCHANGED <<now, logs, nextId, call, result, view, eval, sweepVars, otherVars>>

\* One iteration of the batch loop: the slice of the queryset (as it is now) at
\* offset `processed`, the parse of each row's legacy_data, and the bulk update
\* of the data field of the rows that parsed.
MigrateBatch ==
    LET m == migrate
        batch_ids == Slice(OrderedIds(MigrateQueryset(logs)),
                           m.processed, m.processed + m.batch_size)
        batch == {log \in logs : log.id \in Range(batch_ids)}
        records_to_update == {log \in batch : JsonValid(log.legacy_data.s)}
    IN  /\ m.pc = "loop"
        /\ IF ~(m.processed < m.total_count) \/ batch_ids = <<>>
           THEN /\ migrate' = [m EXCEPT !.pc = "done"]
                /\ UNCHANGED logs
           ELSE /\ migrate' = [m EXCEPT
                       !.processed = m.processed + Len(batch_ids),
                       !.migrated_count = m.migrated_count + Cardinality(records_to_update),
                       !.error_count = m.error_count
                                       + Cardinality(batch \ records_to_update)]
                /\ logs' = IF m.dry_run THEN logs
                           ELSE (logs \ records_to_update)
                                \cup {[log EXCEPT !.data = JsonLoads(log.legacy_data.s)] :
                                        log \in records_to_update}
        /\ UNCHANGED <<now, nextId, call, result, view, eval, sweepVars, otherVars>>

\* -------------------------------------------------------------- retrieval

\* The requests a template is rendered for: none, one without a user, an
\* anonymous one, an authenticated user who is no organizer, an organizer.
Requests == {"none", "nouser", "anonymous", "user", "orga"}

\* request.user.is_authenticated
IsAuthenticated(request) == request \in {"user", "orga"}

\* `view` holds what the latest retrieval returned: the entries (their ids, in
\* order) and, from history_sidebar, the show_history flag.
NoView == [op |-> "", log_entries |-> <<>>, show_history |-> FALSE]

\* LogMixin.logged_actions: the entries of the entity, as ids in queryset order.
LoggedActions(self) ==
    OrderedIds({log \in logs : log.content_type = self.name /\ log.object_id = self.pk})

\* A caller retrieves the trail of an entity with logged_actions().
Retrieve(self) ==
    /\ view' = [op |-> "logged_actions", log_entries |-> LoggedActions(self),
                show_history |-> FALSE]
    /\ UNCHANGED <<now, logs, nextId, call, result, migrate, eval, sweepVars, otherVars>>

\* history_sidebar(context, obj, limit): the context it returns.
HistorySidebar(request, obj, limit) ==
    /\ view' = IF ~IsAuthenticated(request)
               THEN [op |-> "history_sidebar", log_entries |-> <<>>, show_history |-> FALSE]
               ELSE [op |-> "history_sidebar",
                     log_entries |-> Slice(LoggedActions(obj), 0, limit),
                     show_history |-> TRUE]
    /\ UNCHANGED <<now, logs, nextId, call, result, migrate, eval, sweepVars, otherVars>>

\* ------------------------------------------------- person/forms/user.py

\* The requests that are handled at the same time, all from one client IP.
LoginClients == 1..MaxClients

\* cache.set(key, value, 300): the lifetime of the counter, in seconds.
CacheTimeout == 300

\* The cache entry under the ratelimit_key: absent, or a counter with the
\* seconds it has left.
NoCounter == [present |-> FALSE, value |-> 0, ttl |-> 0]

\* A request that is not being handled.  `limited`: the request has a
\* ratelimit_key (Redis is there and the client IP is public); `user`: what
\* authenticate() returned; `cache_value`: the local of that name.
IdleRequest == [pc |-> "idle", limited |-> FALSE, user |-> "", cache_value |-> 0]

NoLogin ==
    [cache |-> NoCounter, req |-> [r \in LoginClients |-> IdleRequest],
     last |-> [who |-> 0, outcome |-> ""]]

\* `cnt and int(cnt) > 10`, for cnt = cache.get(key) (a variant that blocks
\* from the tenth failure on).
OverLimitFrom10(cache) == cache.present /\ cache.value >= 10

\* `cnt and int(cnt) > 10`, for cnt = cache.get(key)
OverLimit(cache) == cache.present /\ cache.value # 0 /\ cache.value > 10

\* cache.get(key, 0)
CacheGet(cache) == IF cache.present THEN cache.value ELSE 0

\* _clean_login, the rate-limit check: the request is rejected with
\* RATE_LIMIT_ERROR, or goes on to authenticate.
LoginCheck(r, limited) ==
    /\ login.req[r].pc = "idle"
    /\ IF limited /\ OverLimit(login.cache)
       THEN login' = [login EXCEPT !.req[r] = IdleRequest,
                                   !.last = [who |-> r, outcome |-> "rate_limited"]]
       ELSE login' = [login EXCEPT !.req[r] = [IdleRequest EXCEPT !.pc = "authenticate",
                                                                  !.limited = limited]]
    /\ UNCHANGED <<logVars, sweepVars, tasks, deletion, saver>>

\* authenticate(): it returns no user, an active user or a disabled one.
LoginAuthenticate(r, user) ==
    LET q == login.req[r]
    IN  /\ q.pc = "authenticate"
        /\ IF user = "none" /\ q.limited
           THEN login' = [login EXCEPT !.req[r] = [q EXCEPT !.pc = "get", !.user = user]]
           ELSE login' = [login EXCEPT
                   !.req[r] = IdleRequest,
                   !.last = [who |-> r,
                             outcome |-> CASE user = "none" -> "invalid"
                                           [] user = "inactive" -> "disabled"
                                           [] OTHER -> "ok"]]
        /\ UNCHANGED <<logVars, sweepVars, tasks, deletion, saver>>

\* cache_value = cache.get(self.ratelimit_key, 0)
LoginGet(r) ==
    LET q == login.req[r]
    IN  /\ q.pc = "get"
        /\ login' = [login EXCEPT
                !.req[r] = [q EXCEPT !.pc = "set", !.cache_value = CacheGet(login.cache)]]
        /\ UNCHANGED <<logVars, sweepVars, tasks, deletion, saver>>

\* cache.set(self.ratelimit_key, int(cache_value) + 1, 300), and the
\* ValidationError for the failed login.
LoginSet(r) ==
    LET q == login.req[r]
    IN  /\ q.pc = "set"
        /\ login' = [login EXCEPT
                !.cache = [present |-> TRUE, value |-> q.cache_value + 1,
                           ttl |-> CacheTimeout],
                !.req[r] = IdleRequest,
                !.last = [who |-> r, outcome |-> "invalid"]]
        /\ UNCHANGED <<logVars, sweepVars, tasks, deletion, saver>>

\* Time passes, 100 seconds at a time; the counter expires when its time is
\* up.  No request stays between its cache.get and its cache.set that long.
LoginTick ==
    /\ login.cache.present
    /\ \A r \in LoginClients : login.req[r].pc # "set"
    /\ login' = [login EXCEPT
            !.cache = IF login.cache.ttl <= 100 THEN NoCounter
                      ELSE [login.cache EXCEPT !.ttl = @ - 100]]
    /\ UNCHANGED <<logVars, sweepVars, tasks, deletion, saver>>

\* -------------------------------------------------------- common/queue.py

TaskIds == 1..MaxTasks

\* A bound task whose function calls self.retry(max_retries, exc=exc) every
\* time it runs.  `queue`: get_queue() returns a queue (RQ_REDIS_URL is set);
\* `given`: the wrapper is handed its job as the keyword argument _rq_job;
\* `pending`: the retry counts in the meta of the jobs that wait in the queue;
\* `runs`: how often the function has run; `error`: what the latest run raised.
NewTask ==
    [state |-> "new", max_retries |-> 0, exc |-> FALSE, queue |-> FALSE, given |-> FALSE,
     pending |-> <<>>, runs |-> 0, error |-> ""]

\* TaskContext.retry in one run of the function: `enqueue` is the meta of the
\* job it enqueues (<<>>: none), `error` what it raises ("": it returns).
\* task_wrapper sets context.job only from the keyword argument _rq_job, so
\* context.retries is the count of the job handed over, or else the _retries
\* of the fresh TaskContext, 0.
Retry(task, job_retries) ==
    LET current_retries == IF task.given THEN job_retries ELSE 0
    IN  IF current_retries >= task.max_retries
        THEN [enqueue |-> <<>>,
              error |-> IF task.exc THEN "exc" ELSE "MaxRetriesExceededError"]
        ELSE IF ~task.queue
        THEN [enqueue |-> <<>>, error |-> IF task.exc THEN "exc" ELSE ""]
        ELSE [enqueue |-> IF task.given THEN <<current_retries + 1>> ELSE <<>>,
              error |-> "RetryTask"]

\* Task.apply_async: the task is enqueued, or run at once when there is no
\* queue.
ApplyAsync(t, max_retries, exc, queue, given) ==
    LET task == [NewTask EXCEPT !.max_retries = max_retries, !.exc = exc,
                                !.queue = queue, !.given = given]
        eager == Retry(task, 0)
    IN  /\ tasks[t].state = "new"
        /\ tasks' = [tasks EXCEPT ![t] =
              IF queue
              THEN [task EXCEPT !.state = "queued", !.pending = <<0>>]
              ELSE [task EXCEPT !.state = IF eager.error = "" THEN "done" ELSE "failed",
                                !.runs = 1, !.error = eager.error]]
        /\ UNCHANGED <<logVars, sweepVars, login, deletion, saver>>

\* A worker takes the next job of the task and runs task_wrapper.
Work(t) ==
    LET task == tasks[t]
        outcome == Retry(task, Head(task.pending))
        pending == Tail(task.pending) \o outcome.enqueue
    IN  /\ task.state = "queued"
        /\ task.pending # <<>>
        /\ tasks' = [tasks EXCEPT ![t] =
              [task EXCEPT !.pending = pending,
                           !.runs = @ + 1,
                           !.error = outcome.error,
                           !.state = IF pending # <<>> THEN "queued"
                                     ELSE IF outcome.error = "" THEN "done" ELSE "failed"]]
        /\ UNCHANGED <<logVars, sweepVars, login, deletion, saver>>

\* ------------------------------------------------------ GenerateCode.save

\* The codes generate_code can return.
Codes == 1..MaxCodes

\* No code: the value of the code attribute is None.
NoCode == 0

\* `table`: the codes of the rows in the table; `code`: the code attribute of
\* the object; `tries`: the iterations of the retry loop that are over;
\* `outcome`: how the call ended ("": it has not).
NoSave == [table |-> {}, pc |-> "idle", code |-> NoCode, tries |-> 0, outcome |-> ""]

\* range(3)
SaveTries == 3

\* save() is called on an object that has no row yet, with a code or without.
SaveStart(code) ==
    /\ saver.pc = "idle"
    /\ saver' = [saver EXCEPT !.pc = "loop", !.code = code, !.tries = 0, !.outcome = ""]
    /\ UNCHANGED <<logVars, sweepVars, login, tasks, deletion>>

\* The head of the for loop, and assign_code() when the object has no code: a
\* generated code that no row has.  After the last iteration save() returns.
SaveLoop ==
    /\ saver.pc = "loop"
    /\ IF saver.tries >= SaveTries
       THEN saver' = [saver EXCEPT !.pc = "idle", !.outcome = "returned"]
       ELSE IF saver.code # NoCode
       THEN saver' = [saver EXCEPT !.pc = "save"]
       ELSE \E code \in Codes \ saver.table :
               saver' = [saver EXCEPT !.pc = "save", !.code = code]
    /\ UNCHANGED <<logVars, sweepVars, login, tasks, deletion>>

\* super().save(): the row is inserted (nothing is raised); or IntegrityError
\* is raised, as it is when a row has the code already, and as it can be for
\* another constraint of the model; or another error is raised, which save()
\* lets through.
SuperSave(raised) ==
    /\ saver.pc = "save"
    /\ saver.code \in saver.table => raised = "IntegrityError"
    /\ saver' =
          CASE raised = "" ->
                  [saver EXCEPT !.pc = "idle", !.outcome = "saved",
                                !.table = @ \cup {saver.code}]
            [] raised = "IntegrityError" ->
                  [saver EXCEPT !.pc = "loop", !.code = NoCode, !.tries = @ + 1]
            [] OTHER -> [saver EXCEPT !.pc = "idle", !.outcome = "raised"]
    /\ UNCHANGED <<logVars, sweepVars, login, tasks, deletion>>

\* Another request saves a row with a code, as long as codes are left for
\* assign_code to find.
OtherInsert(code) ==
    /\ code \notin saver.table
    /\ Cardinality(saver.table) + 1 < MaxCodes
    /\ saver' = [saver EXCEPT !.table = @ \cup {code}]
    /\ UNCHANGED <<logVars, sweepVars, login, tasks, deletion>>

\* ------------------------------------------------------------ the system

\* Nothing has been evaluated.
NoEval == [fn |-> "", args |-> <<>>, value |-> FALSE]

NoCall ==
    [self |-> NoObject, action |-> <<"">>, data |-> PyNone, person |-> NoPerson,
     orga |-> FALSE, content_object |-> NoObject, old_data |-> PyNone, new_data |-> PyNone]

\* A row written by an older version: its payload is text in legacy_data.
LegacyEntry(id, text, data) ==
    [id |-> id, timestamp |-> 0, event |-> "e1", person |-> NoPerson,
     content_type |-> Submission1.name, object_id |-> Submission1.pk,
     action_type |-> <<"pretalx.submission.create">>, data |-> data,
     legacy_data |-> PyStr(text), is_orga_action |-> FALSE]

\* The data field of such a row: null, empty, or filled already.
LegacyData == {PyNone, PyDict(<<>>), PyDict(<<"title">> :> PyStr("B"))}

\* The stores an upgraded installation starts with: rows 1..n of an older version.
InitialStores ==
    UNION {{ {LegacyEntry(i, f[i].text, f[i].data) : i \in 1..n} :
               f \in [1..n -> [text : LegacyTexts, data : LegacyData]] } :
           n \in 0..MaxLegacy}

InitWith(store) ==
    /\ now = 0
    /\ logs = store
    /\ nextId = Cardinality(store) + 1
    /\ call = NoCall
    /\ result = [kind |-> "none", id |-> 0]
    /\ sweep = [p \in Procs |-> IdleSweep]
    /\ files = [p \in Procs |-> NoFiles]
    /\ deleted = [p \in Procs |-> {}]
    /\ atStart = [p \in Procs |-> {}]
    /\ migrate = IdleMigrate
    /\ view = NoView
    /\ eval = NoEval
    /\ login = NoLogin
    /\ tasks = [t \in TaskIds |-> NewTask]
    /\ deletion = [existing |-> Children, last |-> NoDelete]
    /\ saver = NoSave

\* A new installation: the store is empty.
Init == InitWith({})

\* An installation upgraded from an older version.
InitUpgraded == \E store \in InitialStores : InitWith(store)

\* An installation upgraded from an older version that had logged little: at
\* most one row.
InitUpgradedSmall ==
    \E store \in {st \in InitialStores : Cardinality(st) <= 1} : InitWith(store)

\* The options the sweep is run with.
OlderThanDays == {30, MinAgeDays}
EventSlugs == {"", "e1", "nope"}
BatchSizes == 1..MaxBatch
Confirms == {"skip", "y", "n"}

\* The entities that live traffic logs on while sweeps run.
LiveEntities == {Submission1, Event2, User3}

\* The operator runs the sweep with any options.
OperatorSweep ==
    \E p \in Procs, older_than_days \in OlderThanDays, event_slug \in EventSlugs,
       archive_path \in BOOLEAN, dry_run \in BOOLEAN, batch_size \in BatchSizes,
       confirm \in Confirms :
       SweepStart(p, older_than_days, event_slug, archive_path, dry_run, batch_size, confirm)

SweepStep(p) ==
    \/ FetchBatch(p)
    \/ ArchiveBatch(p)
    \/ \E k \in 0..MaxBatch, close_ok \in BOOLEAN : ArchiveFail(p, k, close_ok)
    \/ DeleteBatch(p)
    \/ \E close_ok \in BOOLEAN : Finish(p, close_ok)
    \/ Interrupt(p)
    \/ Crash(p)

\* The sweep has not ended: it is still to be run, or running.
SweepPending == \E p \in Procs : sweep[p].pc \in {"idle"} \cup Running

\* A retention sweep, concurrent with live traffic.  The system is followed
\* until the sweep has ended.
Next ==
    \/ SweepPending /\ Tick
    \/ SweepPending /\ \E self \in LiveEntities : LiveTraffic(self)
    \/ OperatorSweep
    \/ \E p \in Procs : SweepStep(p)

Spec == Init /\ [][Next]_vars

\* A retention sweep with no concurrent activity: traffic only before it starts.
SweepIdle == \A p \in Procs : sweep[p].pc = "idle"

NextSolo ==
    \/ SweepIdle /\ Tick
    \/ SweepIdle /\ \E self \in LiveEntities : LiveTraffic(self)
    \/ OperatorSweep
    \/ \E p \in Procs : SweepStep(p)

SpecSolo == Init /\ [][NextSolo]_vars

\* No command is under way.
Quiet == migrate.pc # "loop" /\ \A p \in Procs : sweep[p].pc \notin Running

\* Every operation on the store of an upgraded installation, one after the
\* other: traffic, a sweep (run with --older-than-days 90 --yes and no archive,
\* every step of it succeeding), one migration of the legacy rows, and the two
\* retrievals.
NextAll ==
    \/ Quiet /\ Tick
    \/ Quiet /\ LiveTraffic(Submission1)
    \/ /\ Quiet
       /\ \E p \in Procs, batch_size \in BatchSizes :
             SweepStart(p, MinAgeDays, "", FALSE, FALSE, batch_size, "skip")
    \/ \E p \in Procs : FetchBatch(p)
    \/ \E p \in Procs : DeleteBatch(p)
    \/ \E p \in Procs : Finish(p, TRUE)
    \/ /\ Quiet
       /\ migrate.pc = "idle"
       /\ \E dry_run \in BOOLEAN, batch_size \in BatchSizes : MigrateStart(dry_run, batch_size)
    \/ MigrateBatch
    \/ Quiet /\ Retrieve(Submission1)
    \/ Quiet /\ \E request \in {"anonymous", "orga"} : HistorySidebar(request, Submission1, 1)

SpecAll == InitUpgradedSmall /\ [][NextAll]_vars

\* The operator runs migrate_activity_logs on an upgraded installation, with
\* any options, and again once a run has ended; nothing else touches the store.
NextMigrate ==
    \/ \E dry_run \in BOOLEAN, batch_size \in BatchSizes : MigrateStart(dry_run, batch_size)
    \/ MigrateBatch

SpecMigrate == InitUpgraded /\ [][NextMigrate]_vars

\* The actions log_action is called with (absolute, and relative to the
\* log_prefix) and the content_object arguments: not given, an object that has
\* not been saved, a saved one.
LogActions == {<<"test.update">>, <<".", "update">>}
ContentObjects == {NoObject, Unsaved, Event2}

\* Any sequence of log_action calls on any entity.
NextLog ==
    \E self \in Entities, action \in LogActions, content_object \in ContentObjects :
       LogActionCall(self, action, PyNone, NoPerson, FALSE, content_object, PyNone, PyNone)

SpecLog == Init /\ [][NextLog]_vars

\* An entry that earlier traffic on Submission1 has left in the store.
EarlierEntry(id) ==
    [id |-> id, timestamp |-> 0, event |-> Submission1.event, person |-> NoPerson,
     content_type |-> Submission1.name, object_id |-> Submission1.pk,
     action_type |-> <<"test.update">>, data |-> PyNone, legacy_data |-> PyNone,
     is_orga_action |-> FALSE]

\* An installation in use: the store holds the entries of earlier traffic, and
\* the id sequence has one value left.
InitBusy == InitWith({EarlierEntry(i) : i \in 1..(MaxLogs - 1)})

\* The payloads callers pass as `data`: none, mappings (empty, plain, with
\* sensitive keys and truthy or falsy values, with the key "changes", with a
\* value json.dumps rejects) and values that are no mapping (list, str, number,
\* each empty or not).
DataValues ==
    {PyNone,
     PyDict(<<>>),
     PyDict(<<"custom">> :> PyStr("info")),
     PyDict((<<"password">> :> PyStr("12345")) @@ (<<"note">> :> PyStr(""))),
     PyDict((<<"user_", "secret">> :> PyStr("")) @@ (<<"my_", "api_key", "_2">> :> PyNum(7))),
     PyDict(<<"changes">> :> PyStr("mine")),
     PyDict(<<"when">> :> PyObj),
     PyDict(<<"password">> :> PyObj),
     PyList(0), PyList(1), PyStr(""), PyStr("x"), PyNum(0), PyNum(1)}

\* The snapshots callers pass as old_data and new_data: none, or the fields of
\* the entity; `track` is not set, `start` is a datetime.
Snapshots ==
    {PyNone,
     PyDict(<<"title">> :> PyStr("A")),
     PyDict(<<"title">> :> PyStr("B")),
     PyDict((<<"title">> :> PyStr("A")) @@ (<<"track">> :> PyNone)),
     PyDict((<<"title">> :> PyStr("A")) @@ (<<"start">> :> PyObj))}

\* Who acts: nobody, or the organizer alice.
Actors == {[person |-> NoPerson, orga |-> FALSE], [person |-> "alice", orga |-> TRUE]}

\* Calls of log_action on a saved entity with every payload, as long as the id
\* sequence has a value left.
NextPayload ==
    /\ nextId <= MaxLogs
    /\ \E data \in DataValues, actor \in Actors,
          old_data \in Snapshots, new_data \in Snapshots :
          LogActionCall(Submission1, <<"test.update">>, data, actor.person, actor.orga,
                        NoObject, old_data, new_data)

SpecPayload == InitBusy /\ [][NextPayload]_vars

\* The action names callers pass: absolute ones, and ones relative to the
\* log_prefix of the entity.
ActionNames == {<<"test.update">>, <<"pretalx.event.delete">>, <<".", "update">>, <<".", "create">>}

\* Calls of log_action on every entity under every action name, as long as the
\* id sequence has a value left.
NextPrefix ==
    /\ nextId <= MaxLogs
    /\ \E self \in Entities, action \in ActionNames, actor \in Actors,
          data \in {PyNone, PyDict(<<"custom">> :> PyStr("info"))},
          content_object \in {NoObject, Event2} :
          LogActionCall(self, action, data, actor.person, actor.orga, content_object,
                        PyNone, PyNone)

SpecPrefix == InitBusy /\ [][NextPrefix]_vars

\* The snapshots _compute_changes is given: every mapping from some of the
\* fields to a value (null, a string, a number).
SnapshotFields == {<<"title">>, <<"track">>}
FieldValues == {PyNone, PyStr("A"), PyStr("B"), PyNum(1)}
FieldSnapshots ==
    {PyDict(f) : f \in UNION {[fields -> FieldValues] : fields \in SUBSET SnapshotFields}}

\* A call of _compute_changes.
ComputeChangesCall(old_data, new_data) ==
    /\ eval' = [fn |-> "_compute_changes", args |-> <<old_data, new_data>>,
                value |-> PyDict(ComputeChanges(old_data.m, new_data.m))]
    /\ UNCHANGED <<now, logs, nextId, call, result, migrate, view, sweepVars, otherVars>>

NextChanges ==
    \E old_data \in FieldSnapshots, new_data \in FieldSnapshots :
       ComputeChangesCall(old_data, new_data)

SpecChanges == Init /\ [][NextChanges]_vars

\* The snapshots of an entity that has fields with sensitive names (api_key,
\* user_password): the field set or not, empty, or holding a secret.
SecretValues == {PyStr("hunter2"), PyStr("s3cret")}
SecretSnapshots ==
    {PyNone, PyDict(<<"title">> :> PyStr("A"))}
    \cup {PyDict((<<"title">> :> PyStr("A")) @@ (<<"api_key">> :> v)) :
            v \in SecretValues \cup {PyStr(""), PyNone}}
    \cup {PyDict(<<"user_", "password">> :> v) : v \in SecretValues}

\* Calls of log_action that track the change of such an entity.
NextSecrets ==
    /\ nextId <= MaxLogs
    /\ \E data \in {PyNone, PyDict(<<"custom">> :> PyStr("info"))},
          old_data \in SecretSnapshots, new_data \in SecretSnapshots :
          LogActionCall(Submission1, <<"test.update">>, data, NoPerson, FALSE,
                        NoObject, old_data, new_data)

SpecSecrets == InitBusy /\ [][NextSecrets]_vars

\* ------------------------------------------------------- agenda/rules.py

\* A target that is absent (None).
NullTarget == [kind |-> "none"]

\* Events, by what the predicates read of them: is_public, the feature flags
\* show_schedule, show_widget_if_not_public and use_feedback, whether there is
\* a current_schedule, and whether featured submissions are shown.
AgendaEvents ==
    {[kind |-> "event", is_public |-> p, show_schedule |-> s, current_schedule |-> c,
      featured_visible |-> f, show_widget_if_not_public |-> w, use_feedback |-> u] :
        p \in BOOLEAN, s \in BOOLEAN, c \in BOOLEAN, f \in BOOLEAN,
        w \in BOOLEAN, u \in BOOLEAN}

\* The events submissions and profiles are taken from.
PlainEvents == {e \in AgendaEvents : ~e.show_widget_if_not_public /\ ~e.use_feedback}

\* Submissions: saved or not (pk), featured or not, with no slot, a visible
\* slot or a hidden one.
Submissions ==
    {[kind |-> "submission", pk |-> k, is_featured |-> f, slot |-> sl, event |-> e] :
        k \in BOOLEAN, f \in BOOLEAN, sl \in {"none", "visible", "hidden"},
        e \in PlainEvents}

\* Speaker profiles, with the submissions of their event that are linked to
\* them: none, one or two saved submissions.
Profiles ==
    UNION {{[kind |-> "profile", event |-> e, submissions |-> subs] :
               subs \in {ss \in SUBSET {sub \in Submissions : sub.event = e /\ sub.pk} :
                            Cardinality(ss) <= 2}} :
           e \in PlainEvents}

\* The actors, by what the imported predicates say of them.
RuleUsers ==
    {[name |-> "anonymous", orga |-> FALSE, reviewer |-> FALSE, names |-> FALSE],
     [name |-> "orga", orga |-> TRUE, reviewer |-> FALSE, names |-> FALSE],
     [name |-> "reviewer", orga |-> FALSE, reviewer |-> TRUE, names |-> TRUE],
     [name |-> "blind_reviewer", orga |-> FALSE, reviewer |-> TRUE, names |-> FALSE]}

\* What the call of a predicate does: it returns a value, or raises.
Raise == [kind |-> "raise"]
Value(v) == [kind |-> "value", v |-> v]

\* target.event; an event is its own event.
EventOf(target) == IF target.kind = "event" THEN target ELSE target.event

\* The imported predicates.
are_featured_submissions_visible(user, event) == event.featured_visible
orga_can_change_submissions(user, target) == Value(user.orga)
is_reviewer(user, target) == Value(user.reviewer)
can_view_speaker_names(user, target) == Value(user.names)

\* P | Q and P & Q of the rules library: Q is evaluated when P does not decide.
OrElse(p, q) == IF p.kind = "raise" \/ p.v THEN p ELSE q
AndAlso(p, q) == IF p.kind = "raise" \/ ~p.v THEN p ELSE q

is_submission_visible_via_featured(user, submission) ==
    IF submission.kind = "none" THEN Value(FALSE)
    ELSE Value(submission.is_featured
               /\ are_featured_submissions_visible(user, submission.event))

is_agenda_visible(user, event) ==
    IF event.kind = "none" THEN Raise
    ELSE LET ev == EventOf(event)
         IN  Value(ev.is_public /\ ev.show_schedule /\ ev.current_schedule)

\* The predicate without the test of submission.pk (a variant of
\* is_submission_visible_via_schedule).
is_submission_visible_unsaved(user, submission) ==
    IF submission.kind = "none" THEN Value(FALSE)
    ELSE LET agenda == is_agenda_visible(user, submission.event)
         IN  IF agenda.kind = "raise" THEN agenda
             ELSE Value(agenda.v /\ submission.slot = "visible")

is_submission_visible_via_schedule(user, submission) ==
    IF submission.kind = "none" THEN Value(FALSE)
    ELSE IF ~submission.pk THEN Value(FALSE)
    ELSE LET agenda == is_agenda_visible(user, submission.event)
         IN  IF agenda.kind = "raise" THEN agenda
             ELSE Value(agenda.v /\ submission.slot # "none" /\ submission.slot = "visible")

can_view_schedule(user, target) ==
    OrElse(OrElse(is_agenda_visible(user, target),
                  orga_can_change_submissions(user, target)),
           AndAlso(is_reviewer(user, target), can_view_speaker_names(user, target)))

is_agenda_submission_visible(user, submission) ==
    IF submission.kind = "none" THEN Value(FALSE)
    ELSE OrElse(is_submission_visible_via_schedule(user, submission),
                is_submission_visible_via_featured(user, submission))

\* The predicate looking at the schedule path only (a variant of
\* is_viewable_profile).
is_viewable_profile_by_schedule(user, profile) ==
    IF profile.kind = "none" THEN Raise
    ELSE Value(\E submission \in profile.submissions :
                  is_submission_visible_via_schedule(user, submission).v)

is_viewable_profile(user, profile) ==
    IF profile.kind = "none" THEN Raise
    ELSE Value(\E submission \in profile.submissions :
                  \/ is_submission_visible_via_schedule(user, submission).v
                  \/ is_submission_visible_via_featured(user, submission).v)

is_speaker_viewable(user, target) ==
    AndAlso(is_viewable_profile(user, target), can_view_schedule(user, target))

is_widget_always_visible(user, event) ==
    IF event.kind = "none" THEN Raise ELSE Value(event.show_widget_if_not_public)

is_widget_visible(user, target) ==
    OrElse(is_agenda_visible(user, target), is_widget_always_visible(user, target))

event_uses_feedback(user, event) ==
    IF event.kind = "none" THEN Value(FALSE) ELSE Value(EventOf(event).use_feedback)

\* The predicates by name, and the targets each is evaluated on.
EventPredicates ==
    {"is_agenda_visible", "can_view_schedule", "is_widget_always_visible",
     "is_widget_visible", "event_uses_feedback"}
SubmissionPredicates ==
    {"is_submission_visible_via_schedule", "is_submission_visible_via_featured",
     "is_agenda_submission_visible"}
ProfilePredicates == {"is_viewable_profile", "is_speaker_viewable"}

TargetsOf(fn) ==
    {NullTarget} \cup (IF fn \in EventPredicates THEN AgendaEvents
                       ELSE IF fn \in SubmissionPredicates THEN Submissions
                       ELSE Profiles)

Apply(fn, user, target) ==
    CASE fn = "is_agenda_visible" -> is_agenda_visible(user, target)
      [] fn = "can_view_schedule" -> can_view_schedule(user, target)
      [] fn = "is_widget_always_visible" -> is_widget_always_visible(user, target)
      [] fn = "is_widget_visible" -> is_widget_visible(user, target)
      [] fn = "event_uses_feedback" -> event_uses_feedback(user, target)
      [] fn = "is_submission_visible_via_schedule" ->
            is_submission_visible_via_schedule(user, target)
      [] fn = "is_submission_visible_via_featured" ->
            is_submission_visible_via_featured(user, target)
      [] fn = "is_agenda_submission_visible" -> is_agenda_submission_visible(user, target)
      [] fn = "is_viewable_profile" -> is_viewable_profile(user, target)
      [] fn = "is_speaker_viewable" -> is_speaker_viewable(user, target)

\* A permission check: a predicate is evaluated for an actor and a target.
EvaluateRule(fn, user, target) ==
    /\ eval' = [fn |-> fn, args |-> <<user, target>>, value |-> Apply(fn, user, target)]
    /\ UNCHANGED <<now, logs, nextId, call, result, migrate, view, sweepVars, otherVars>>

\* One permission check, of any predicate for any actor and target.
NextRules ==
    /\ eval.fn = ""
    /\ \E fn \in EventPredicates \cup SubmissionPredicates \cup ProfilePredicates,
          user \in RuleUsers :
          \E target \in TargetsOf(fn) : EvaluateRule(fn, user, target)

SpecRules == Init /\ [][NextRules]_vars

\* Login requests from one client IP, handled concurrently.
NextLogin ==
    \/ \E r \in LoginClients, limited \in BOOLEAN : LoginCheck(r, limited)
    \/ \E r \in LoginClients, user \in {"none", "active", "inactive"} :
          LoginAuthenticate(r, user)
    \/ \E r \in LoginClients : LoginGet(r)
    \/ \E r \in LoginClients : LoginSet(r)
    \/ LoginTick

SpecLogin == Init /\ [][NextLogin]_vars

\* Tasks are applied with any options, and workers run their jobs.
NextQueue ==
    \/ \E t \in TaskIds, max_retries \in 0..MaxRetries, exc \in BOOLEAN,
          queue \in BOOLEAN, given \in BOOLEAN :
          ApplyAsync(t, max_retries, exc, queue, given)
    \/ \E t \in TaskIds : Work(t)

SpecQueue == Init /\ [][NextQueue]_vars

\* Entities are deleted, by anybody and with or without a payload for the
\* log, while live traffic logs on their parents.
NextDelete ==
    \/ \E self \in {Submission1, Event2} : LiveTraffic(self)
    \/ \E self \in Children, raises \in BOOLEAN, actor \in Actors,
          data \in {PyNone, PyDict(<<"custom">> :> PyStr("info"))} :
          Delete(self, raises, data, actor.person, actor.orga)

SpecDelete == Init /\ [][NextDelete]_vars

\* Objects with generated codes are saved, one call after the other, while
\* other requests insert rows.
NextSave ==
    \/ \E code \in Codes \cup {NoCode} : SaveStart(code)
    \/ SaveLoop
    \/ \E raised \in {"", "IntegrityError", "DatabaseError"} : SuperSave(raised)
    \/ \E code \in Codes : OtherInsert(code)

SpecSave == Init /\ [][NextSave]_vars

\* The limits history_sidebar is rendered with.
Limits == 0..MaxLogs

\* Pages with the history sidebar are rendered, for any requester and entity,
\* while live traffic adds entries.
NextSidebar ==
    \/ \E self \in LiveEntities : LiveTraffic(self)
    \/ \E request \in Requests, obj \in LiveEntities, limit \in Limits :
          HistorySidebar(request, obj, limit)

SpecSidebar == Init /\ [][NextSidebar]_vars

\* ------------------------------------------------------ the retention sweep

\* The entries that matched the cutoff and the event filter when sweep p started.
Matched(p) == Queryset(atStart[p], sweep[p].cutoff_date, sweep[p].event_slug)

\* The ids of the lines of p's archive file.
ArchivedIds(p) == {OnDisk(p)[i].id : i \in DOMAIN OnDisk(p)}

Ids(entries) == {e.id : e \in entries}

\* C1: after a non-dry-run sweep has finished without error and with no
\* concurrent activity, no entry that matched the age cutoff and the event filter
\* when it started remains in the store.
C1_NoMatchRemains ==
    \A p \in Procs :
        (sweep[p].pc = "done" /\ ~sweep[p].dry_run) => Matched(p) \cap logs = {}

\* C2: a sweep never deletes an entry whose timestamp is less than 90 days
\* before the moment the sweep computed its cutoff, and never one inserted after
\* it started, under any interleaving with log_action calls.
C2_NeverDeletesYoung ==
    \A p \in Procs : \A e \in deleted[p] :
        /\ sweep[p].started - e.timestamp >= 90
        /\ e \in atStart[p]

\* C2's case: a sweep that deleted something is done, while an entry younger
\* than 90 days that was there at its start, and one inserted while it ran, are
\* in the store.
C2_Witness ==
    \E p \in Procs :
        /\ sweep[p].pc = "done"
        /\ deleted[p] # {}
        /\ \E e \in logs \cap atStart[p] : sweep[p].started - e.timestamp < 90
        /\ logs \ atStart[p] # {}

\* C3: with an archive destination, at every point at which the sweep can
\* crash or be stopped, every entry it has deleted is in the archive file on
\* disk.
C3_DeletedAreOnDisk ==
    \A p \in Procs :
        sweep[p].archive_file => Ids(deleted[p]) \subseteq ArchivedIds(p)

\* C4: after a non-dry-run sweep with an archive destination has completed, the
\* archive holds one line per deleted entry: as many lines as deleted entries,
\* every line's id the id of a deleted entry, and the metadata's total_logs the
\* number of lines.
C4_ArchiveMatchesDeleted ==
    \A p \in Procs :
        (sweep[p].pc = "done" /\ sweep[p].archive_file) =>
            /\ Len(OnDisk(p)) = Cardinality(deleted[p])
            /\ ArchivedIds(p) = Ids(deleted[p])
            /\ files[p].metadata # None
            /\ files[p].metadata[1].total_logs = Len(OnDisk(p))

\* C4's case: a completed sweep that archived and deleted in more than one batch.
C4_Witness ==
    \E p \in Procs :
        /\ sweep[p].pc = "done"
        /\ sweep[p].archive_file
        /\ sweep[p].batch_size = 1
        /\ Cardinality(deleted[p]) >= 2

\* C5: a sweep called with an age threshold below 90 days fails with a
\* validation error before it selects anything: it deletes nothing and creates
\* neither an archive nor a metadata file, whatever the other options.
C5_BelowFloorRejected ==
    \A p \in Procs :
        (sweep[p].pc # "idle" /\ sweep[p].older_than_days < 90) =>
            /\ sweep[p].pc = "error"
            /\ sweep[p].total_count = 0
            /\ deleted[p] = {}
            /\ atStart[p] \subseteq logs
            /\ files[p] = NoFiles

\* C5's case: a sweep with threshold 30 and an archive destination has ended in
\* the error while entries older than 30 days are in the store.
C5_Witness ==
    \E p \in Procs :
        /\ sweep[p].pc = "error"
        /\ sweep[p].older_than_days = 30
        /\ sweep[p].archive_path
        /\ ~sweep[p].dry_run
        /\ \E e \in logs : e.timestamp < now - 30

\* C6: a dry run leaves the entry store as it is and writes neither an archive
\* nor a metadata file: no step of a sweep run with dry_run changes the store
\* or creates a file, whatever the other options and even when entries match.
C6_DryRunChangesNothing ==
    [][\A p \in Procs :
          (sweep'[p].dry_run /\ sweep'[p] # sweep[p]) =>
              /\ logs' = logs
              /\ files'[p] = NoFiles
              /\ deleted'[p] = {}]_vars

\* C6's case: a dry run with an archive destination has gone through several
\* matching entries, in more than one batch, and is done.
C6_Witness ==
    \E p \in Procs :
        /\ sweep[p].pc = "done"
        /\ sweep[p].dry_run
        /\ sweep[p].archive_path
        /\ sweep[p].processed >= 2
        /\ sweep[p].batch_size = 1
        /\ Cardinality(Matched(p) \cap logs) >= 2

\* The rows of the batch a failed sweep was working on.
BatchRows(p) == {e \in atStart[p] : e.id \in Range(sweep[p].batch_ids)}

C8_EventFilterFrames ==
    \A p \in Procs :
        (sweep[p].pc # "idle" /\ sweep[p].event_slug # "") =>
            /\ \A e \in deleted[p] : e.event = sweep[p].event_slug
            /\ \A i \in DOMAIN files[p].written :
                  files[p].written[i].event = sweep[p].event_slug
            /\ \A e \in atStart[p] : e.event # sweep[p].event_slug => e \in logs
            /\ sweep[p].event_slug \notin Events =>
                  /\ sweep[p].pc = "error"
                  /\ deleted[p] = {}
                  /\ atStart[p] \subseteq logs
                  /\ files[p] = NoFiles

\* C8's case: a sweep filtered on event e1 has deleted and archived, and is
\* done, while entries of another event and of no event, as old, are in the store.
C8_Witness ==
    \E p \in Procs :
        /\ sweep[p].pc = "done"
        /\ sweep[p].event_slug = "e1"
        /\ deleted[p] # {}
        /\ files[p].written # <<>>
        /\ \E e \in logs : e.event = "e2" /\ e.timestamp < sweep[p].cutoff_date
        /\ \E e \in logs : e.event = NoEvent /\ e.timestamp < sweep[p].cutoff_date

\* ------------------------------------------------------------------- C9

C10_SubjectsPersisted ==
    /\ (call # NoCall /\ (PkFalsy(call.self.pk) \/ call.self.pk.kind # "int"))
          => result.kind = "noop"
    /\ \A e \in logs : e.object_id.kind = "int" /\ ~PkFalsy(e.object_id)

\* ------------------------------------------------------------ C11 .. C18

\* Both snapshots are given.
Tracked(old_data, new_data) == old_data # PyNone /\ new_data # PyNone

\* The value of a field in a snapshot, null when the snapshot lacks the field.
FieldOf(snapshot, key) == IF key \in DOMAIN snapshot.m THEN snapshot.m[key] ELSE PyNone

\* The fields on which two snapshots differ.
DifferingFields(old_data, new_data) ==
    {key \in DOMAIN old_data.m \cup DOMAIN new_data.m :
        FieldOf(old_data, key) # FieldOf(new_data, key)}

\* The entries a step adds to the store.
Added == logs' \ logs

\* C11: a log_action call with both snapshots, no differing field and no
\* explicit data creates no entry and returns nothing: the store is as before.
C11_NoChangesNoEntry ==
    [][(/\ call' # call
        /\ Tracked(call'.old_data, call'.new_data)
        /\ DifferingFields(call'.old_data, call'.new_data) = {}
        /\ call'.data = PyNone)
          => (logs' = logs /\ nextId' = nextId /\ result'.kind = "noop")]_vars

\* C11's case: such a call, with snapshots that are not the same mapping, has
\* been made on a saved entity and returned nothing.
C11_Witness ==
    /\ Tracked(call.old_data, call.new_data)
    /\ DifferingFields(call.old_data, call.new_data) = {}
    /\ call.old_data # call.new_data
    /\ call.data = PyNone
    /\ call.self = Submission1
    /\ result.kind = "noop"

\* A mapping that log_action stores as it is: no key of it is sensitive and
\* json.dumps accepts every value.
PlainMapping(data) ==
    /\ data.t = "dict"
    /\ \A key \in DOMAIN data.m :
          /\ \A i \in DOMAIN key : key[i] \notin {"password", "secret", "api_key"}
          /\ data.m[key].t # "obj"

\* C12: a log_action call on a saved entity with explicit data (any mapping,
\* empty or not) and snapshots with no differing field creates exactly one
\* entry, whose payload is that data, with no change-set added.
C12_ExplicitDataLogged ==
    [][(/\ call' # call
        /\ Tracked(call'.old_data, call'.new_data)
        /\ DifferingFields(call'.old_data, call'.new_data) = {}
        /\ PlainMapping(call'.data))
          => (/\ result'.kind = "entry"
              /\ Cardinality(Added) = 1
              /\ \A e \in Added : e.id = result'.id /\ e.data = call'.data)]_vars

\* The change-set of two snapshots, as the specification defines it: for each
\* differing field the pair of its old and its new value.
ChangeSet(old_data, new_data) ==
    PyDict([key \in DifferingFields(old_data, new_data) |->
               PyDict((<<"old">> :> FieldOf(old_data, key))
                      @@ (<<"new">> :> FieldOf(new_data, key)))])

\* The name of a key contains one of the sensitive terms.
SensitiveName(key) == \E i \in DOMAIN key : key[i] \in {"password", "secret", "api_key"}

\* What is stored for a supplied value under a key: the mask for a truthy value
\* under a sensitive key, else the value.
StoredFor(key, value) ==
    IF SensitiveName(key) /\ value \notin {PyNone, PyStr(""), PyNum(0), PyList(0), PyDict(<<>>)}
    THEN PyStr("********") ELSE value

\* json.dumps accepts every value of the mapping once it is masked.
Dumpable(mapping) ==
    \A key \in DOMAIN mapping.m : StoredFor(key, mapping.m[key]).t # "obj"

\* json.dumps accepts the old and the new value of every differing field.
DumpableChanges(old_data, new_data) ==
    \A key \in DifferingFields(old_data, new_data) :
        FieldOf(old_data, key).t # "obj" /\ FieldOf(new_data, key).t # "obj"

\* C13: when the snapshots differ, the entry's payload holds the change-set
\* under "changes" and every key the caller supplied in data with the caller's
\* value (masked if sensitive): the merge replaces or drops no caller key.
C13_MergeKeepsCallerKeys ==
    [][(/\ call' # call
        /\ Tracked(call'.old_data, call'.new_data)
        /\ DifferingFields(call'.old_data, call'.new_data) # {}
        /\ call'.data.t = "dict"
        /\ Dumpable(call'.data)
        /\ DumpableChanges(call'.old_data, call'.new_data))
          => (/\ Cardinality(Added) = 1
              /\ \A e \in Added :
                    /\ e.data.t = "dict"
                    /\ <<"changes">> \in DOMAIN e.data.m
                    /\ e.data.m[<<"changes">>] = ChangeSet(call'.old_data, call'.new_data)
                    /\ \A key \in DOMAIN call'.data.m :
                          /\ key \in DOMAIN e.data.m
                          /\ e.data.m[key] = StoredFor(key, call'.data.m[key]))]_vars

\* C14: _compute_changes(old, new) is the mapping that has, for each field of
\* either snapshot whose values differ (a missing field counting as null), the
\* pair of the old and the new value, and no other key; for identical
\* snapshots it is empty.
C14_ComputeChangesExact ==
    eval.fn = "_compute_changes" =>
        LET old_data == eval.args[1]
            new_data == eval.args[2]
            changes == eval.value
        IN  /\ changes.t = "dict"
            /\ \A key \in SnapshotFields :
                  IF FieldOf(old_data, key) # FieldOf(new_data, key)
                  THEN /\ key \in DOMAIN changes.m
                       /\ changes.m[key].t = "dict"
                       /\ DOMAIN changes.m[key].m = {<<"old">>, <<"new">>}
                       /\ changes.m[key].m[<<"old">>] = FieldOf(old_data, key)
                       /\ changes.m[key].m[<<"new">>] = FieldOf(new_data, key)
                  ELSE key \notin DOMAIN changes.m
            /\ DOMAIN changes.m \subseteq SnapshotFields
            /\ old_data = new_data => DOMAIN changes.m = {}

\* C14's case: _compute_changes has been applied to snapshots of which the old
\* one has a field the new one lacks, one field is equal in both, and the result
\* has the pair of the dropped field.
C14_Witness ==
    /\ eval.fn = "_compute_changes"
    /\ <<"track">> \in DOMAIN eval.args[1].m /\ <<"track">> \notin DOMAIN eval.args[2].m
    /\ <<"title">> \in DOMAIN eval.args[1].m /\ <<"title">> \in DOMAIN eval.args[2].m
    /\ eval.args[1].m[<<"title">>] = eval.args[2].m[<<"title">>]
    /\ DOMAIN eval.value.m = {<<"track">>}
    /\ eval.value.m[<<"track">>].m[<<"new">>] = PyNone

\* The change-set is merged into the payload of call c.
Merges(c) ==
    Tracked(c.old_data, c.new_data) /\ DifferingFields(c.old_data, c.new_data) # {}

\* The keys of the payload of call c before masking, and the value supplied
\* for each: the caller's, and the change-set under "changes".
PayloadKeys(c) ==
    (IF c.data.t = "dict" THEN DOMAIN c.data.m ELSE {})
    \cup (IF Merges(c) THEN {<<"changes">>} ELSE {})

Supplied(c, key) ==
    IF Merges(c) /\ key = <<"changes">> THEN ChangeSet(c.old_data, c.new_data)
    ELSE c.data.m[key]

\* C15: in every entry persisted with a payload, each top-level key whose name
\* contains "password", "secret" or "api_key" and whose supplied value is truthy
\* holds the mask "********"; a sensitive key with a falsy value and every
\* non-sensitive key hold the supplied value.
C15_SensitiveValuesMasked ==
    [][call' # call =>
          \A e \in Added :
              e.data.t = "dict" =>
                  /\ DOMAIN e.data.m = PayloadKeys(call')
                  /\ \A key \in DOMAIN e.data.m :
                        e.data.m[key] = StoredFor(key, Supplied(call', key))]_vars

\* C15's case: an entry has been persisted for a payload with a sensitive key
\* of falsy value and a truthy value under a key that contains "api_key": the
\* first is stored as supplied, the second as the mask.
C15_Witness ==
    \E e \in logs :
        /\ e.id = result.id
        /\ call.data.t = "dict"
        /\ DOMAIN call.data.m = {<<"user_", "secret">>, <<"my_", "api_key", "_2">>}
        /\ e.data.t = "dict"
        /\ e.data.m[<<"user_", "secret">>] = PyStr("")
        /\ e.data.m[<<"my_", "api_key", "_2">>] = PyStr("********")
        /\ call.data.m[<<"my_", "api_key", "_2">>] = PyNum(7)

\* C16: for every supplied data value that is no mapping (a list, a string or
\* a number, empty or not), log_action on a saved entity raises a type error and
\* creates no entry.
C16_NonMappingRaises ==
    [][(call' # call /\ call'.data.t \in {"list", "str", "num"})
          => (result'.kind = "raise" /\ logs' = logs)]_vars

\* The final payload of call c is a mapping that json.dumps rejects: a value of
\* the caller's data (as masked) or of the change-set is not serializable.
Undumpable(c) ==
    \/ /\ c.data.t = "dict"
       /\ \E key \in DOMAIN c.data.m :
             /\ ~(Merges(c) /\ key = <<"changes">>)
             /\ StoredFor(key, c.data.m[key]).t = "obj"
    \/ /\ c.data.t \in {"dict", "none"}
       /\ Merges(c)
       /\ ~DumpableChanges(c.old_data, c.new_data)

\* C17: if the final payload cannot be JSON-serialized, log_action does not
\* raise: it creates exactly one entry, with a null payload and the action
\* type, subject, event, actor and organizer flag of the call.
C17_UnserializableLoggedWithoutData ==
    [][(call' # call /\ Undumpable(call'))
          => (/\ result'.kind = "entry"
              /\ Cardinality(Added) = 1
              /\ \A e \in Added :
                    /\ e.id = result'.id
                    /\ e.data = PyNone
                    /\ e.action_type = call'.action
                    /\ e.content_type = call'.self.name
                    /\ e.object_id = call'.self.pk
                    /\ e.event = call'.self.event
                    /\ e.person = call'.person
                    /\ e.is_orga_action = call'.orga)]_vars

\* C17's case: the organizer's call whose change-set holds a datetime, next to
\* plain caller data, has created an entry without payload.
C17_Witness ==
    \E e \in logs :
        /\ e.id = result.id
        /\ call.data = PyDict(<<"custom">> :> PyStr("info"))
        /\ Merges(call)
        /\ ~DumpableChanges(call.old_data, call.new_data)
        /\ call.person = "alice" /\ call.orga
        /\ e.data = PyNone /\ e.person = "alice" /\ e.is_orga_action

\* C18: on a saved entity, log_action with an action name that starts with "."
\* records the entry under the entity's log_prefix followed by the given name;
\* if the entity declares no log_prefix it creates no entry and returns nothing;
\* a name that does not start with "." is recorded as given.
C18_RelativeActionPrefixed ==
    [][(call' # call /\ call'.self.pk.kind = "int")
          => IF call'.action[1] # "."
             THEN /\ Cardinality(Added) = 1
                  /\ \A e \in Added : e.id = result'.id /\ e.action_type = call'.action
             ELSE IF call'.self.log_prefix # ""
             THEN /\ Cardinality(Added) = 1
                  /\ \A e \in Added :
                        /\ e.id = result'.id
                        /\ e.action_type = <<call'.self.log_prefix>> \o call'.action
             ELSE /\ logs' = logs
                  /\ result'.kind = "noop"]_vars

\* C18's case: ".update" on an event, whose log_prefix is "pretalx.event", has
\* been recorded as "pretalx.event" followed by ".update".
C18_Witness ==
    \E e \in logs :
        /\ e.id = result.id
        /\ call.self = Event2
        /\ call.action = <<".", "update">>
        /\ e.action_type = <<"pretalx.event", ".", "update">>

\* ------------------------------------------------------------ C19, C20

\* C19: every agenda predicate (is_agenda_visible, is_agenda_submission_visible,
\* is_viewable_profile, is_widget_always_visible, event_uses_feedback,
\* can_view_schedule, is_speaker_viewable, is_widget_visible) evaluated on an
\* absent target returns False for every actor, and does not raise.
C19_NullTargetIsFalse ==
    (/\ eval.fn \in {"is_agenda_visible", "is_agenda_submission_visible",
                     "is_viewable_profile", "is_widget_always_visible",
                     "event_uses_feedback", "can_view_schedule",
                     "is_speaker_viewable", "is_widget_visible"}
     /\ eval.args[2] = NullTarget)
        => eval.value = [kind |-> "value", v |-> FALSE]

\* The agenda of an event is visible: the event is public, the show_schedule
\* flag is on and there is a current schedule.
AgendaShown(event) == event.is_public /\ event.show_schedule /\ event.current_schedule

\* C20, as stated: is_submission_visible_via_schedule is true exactly when the
\* submission is saved, the agenda of its event is visible and its slot, if it
\* has one, is visible; it is False for an unsaved submission.
C20_VisibleUnlessSlotHidden ==
    (eval.fn = "is_submission_visible_via_schedule" /\ eval.args[2] # NullTarget) =>
        LET submission == eval.args[2]
        IN  /\ eval.value.kind = "value"
            /\ eval.value.v <=> (/\ submission.pk
                                 /\ AgendaShown(submission.event)
                                 /\ submission.slot \in {"none", "visible"})
            /\ ~submission.pk => ~eval.value.v

\* C20, amended: is_submission_visible_via_schedule is true exactly when the
\* submission is saved, the agenda of its event is visible, and the submission
\* has a slot that is visible; it is False for a submission without a slot and
\* for an unsaved one, whatever the other flags.
C20_VisibleWithVisibleSlot ==
    (eval.fn = "is_submission_visible_via_schedule" /\ eval.args[2] # NullTarget) =>
        LET submission == eval.args[2]
        IN  /\ eval.value.kind = "value"
            /\ eval.value.v <=> (/\ submission.pk
                                 /\ AgendaShown(submission.event)
                                 /\ submission.slot = "visible")
            /\ ~submission.pk => ~eval.value.v

\* C20's case: the predicate has been evaluated on a saved submission without a
\* slot in an event whose agenda is visible, and is False.
C20_Witness ==
    /\ eval.fn = "is_submission_visible_via_schedule"
    /\ eval.args[2] # NullTarget
    /\ eval.args[2].pk
    /\ AgendaShown(eval.args[2].event)
    /\ eval.args[2].slot = "none"
    /\ eval.value = [kind |-> "value", v |-> FALSE]

\* ------------------------------------------------------------ C21, C22

\* A submission is agenda-visible: through the schedule (saved, agenda of its
\* event shown, a visible slot) or as a featured submission of an event that
\* shows featured submissions.
AgendaVisible(submission) ==
    \/ submission.pk /\ AgendaShown(submission.event) /\ submission.slot = "visible"
    \/ submission.is_featured /\ submission.event.featured_visible

\* C21: for every actor and profile, is_viewable_profile is true exactly when
\* at least one submission linked to the profile is visible through the
\* schedule or as featured, which is what is_agenda_submission_visible returns
\* for that submission; it is False for a profile without submissions.
C21_ProfileViewableIffSomeSubmission ==
    (eval.fn = "is_viewable_profile" /\ eval.args[2] # NullTarget) =>
        LET user == eval.args[1]
            profile == eval.args[2]
        IN  /\ eval.value.kind = "value"
            /\ eval.value.v <=> \E sub \in profile.submissions : AgendaVisible(sub)
            /\ eval.value.v <=>
                  \E sub \in profile.submissions :
                      is_agenda_submission_visible(user, sub) = Value(TRUE)
            /\ profile.submissions = {} => ~eval.value.v

\* C21's case: the profile has two submissions, one of them visible only as
\* featured and the other not visible at all, and the predicate is True.
C21_Witness ==
    /\ eval.fn = "is_viewable_profile"
    /\ eval.args[2] # NullTarget
    /\ Cardinality(eval.args[2].submissions) = 2
    /\ \E sub \in eval.args[2].submissions : ~AgendaVisible(sub)
    /\ \E sub \in eval.args[2].submissions :
          /\ AgendaVisible(sub)
          /\ ~(AgendaShown(sub.event) /\ sub.slot = "visible")
    /\ eval.value = Value(TRUE)

\* A part of a composed rule returned this Boolean.
Returned(p, b) == p.kind = "value" /\ p.v = b

\* C22: for all actors and targets, the absent target included, each composed
\* rule returns the Boolean combination of the values of its parts
\* (can_view_schedule = is_agenda_visible OR orga_can_change_submissions OR
\* (is_reviewer AND can_view_speaker_names); is_speaker_viewable =
\* is_viewable_profile AND can_view_schedule; is_widget_visible =
\* is_agenda_visible OR is_widget_always_visible), and combining the parts in
\* the other order gives the same result.
C22_ComposedRulesAreBoolean ==
    (eval.fn \in {"can_view_schedule", "is_speaker_viewable", "is_widget_visible"}) =>
        LET user == eval.args[1]
            target == eval.args[2]
            agenda == is_agenda_visible(user, target)
            orga == orga_can_change_submissions(user, target)
            reviewer == is_reviewer(user, target)
            names == can_view_speaker_names(user, target)
        IN  /\ eval.value.kind = "value"
            /\ eval.fn = "can_view_schedule" =>
                  /\ \A p \in {agenda, orga, reviewer, names} : p.kind = "value"
                  /\ eval.value.v = (agenda.v \/ orga.v \/ (reviewer.v /\ names.v))
                  /\ eval.value = OrElse(AndAlso(names, reviewer), OrElse(orga, agenda))
            /\ eval.fn = "is_speaker_viewable" =>
                  LET profile == is_viewable_profile(user, target)
                      schedule == can_view_schedule(user, target)
                  IN  /\ \A p \in {profile, schedule} : p.kind = "value"
                      /\ eval.value.v = (profile.v /\ schedule.v)
                      /\ eval.value = AndAlso(schedule, profile)
            /\ eval.fn = "is_widget_visible" =>
                  LET widget == is_widget_always_visible(user, target)
                  IN  /\ \A p \in {agenda, widget} : p.kind = "value"
                      /\ eval.value.v = (agenda.v \/ widget.v)
                      /\ eval.value = OrElse(widget, agenda)

\* ----------------------------------------------------------------- C23

\* C23: history_sidebar exposes entries only to an organizer: rendered for no
\* request, a request without a user, an anonymous user or an authenticated
\* user who is no organizer, it returns an empty entry list and show_history
\* False.
C23_HistoryOnlyForOrganizers ==
    [][\A request \in Requests \ {"orga"}, obj \in LiveEntities, limit \in Limits :
          HistorySidebar(request, obj, limit) =>
              view'.log_entries = <<>> /\ ~view'.show_history]_vars

\* ----------------------------------------------------------------- C24

\* A payload holds a value in clear, at the top or nested in its mappings.
RECURSIVE InClear(_, _)
InClear(payload, value) ==
    \/ payload = value
    \/ payload.t = "dict" /\ \E key \in DOMAIN payload.m : InClear(payload.m[key], value)

\* C24: no persisted entry exposes a sensitive value through the change-set:
\* when the snapshots of a log_action call differ on a field whose name
\* contains "password", "secret" or "api_key", the payload of the entry the
\* call creates holds neither the truthy old nor the truthy new value of that
\* field in clear.
C24_ChangeSetHidesSensitive ==
    [][\A log \in Added :
          (call' # call /\ Tracked(call'.old_data, call'.new_data)) =>
              \A key \in DifferingFields(call'.old_data, call'.new_data) :
                  SensitiveName(key) =>
                      \A value \in {FieldOf(call'.old_data, key),
                                    FieldOf(call'.new_data, key)} :
                          value \notin {PyNone, PyStr("")} => ~InClear(log.data, value)]_vars

\* ----------------------------------------------------------------- C25

\* The entries a migration is for: legacy_data is non-empty text that parses
\* as JSON, and data is null or empty.
Migratable(store) ==
    {e \in store : /\ e.legacy_data \notin {PyNone, PyStr("")}
                   /\ JsonValid(e.legacy_data.s)
                   /\ e.data \in {PyNone, PyDict(<<>>)}}

\* C25: when a migrate_activity_logs run without --dry-run has completed, every
\* entry with non-empty legacy_data that parses as JSON and with null or empty
\* data at the start has the parsed legacy_data as its data, whatever the batch
\* size and the number of such entries; a second run finds nothing to migrate.
\* (Only the migration writes here, so an entry that was to be migrated and was
\* not is still to be migrated when the run ends.)
C25_MigrationComplete ==
    (migrate.pc = "done" /\ ~migrate.dry_run) =>
        /\ \A e \in Migratable(logs) : e.data = JsonLoads(e.legacy_data.s)
        /\ Migratable(logs) = {}

\* ------------------------------------------------------------ C26, C27

\* C26: a login attempt from a rate-limited client is rejected with the
\* rate-limit error, before any authentication, exactly when the stored failure
\* counter exceeds 10; the rejection leaves the counter and its expiry as they
\* are; and the counter is written only by a request whose authentication has
\* failed.
C26_RejectedIffOverLimit ==
    [][/\ \A r \in LoginClients :
             (/\ login.req[r].pc = "idle"
              /\ login'.req[r].pc = "authenticate"
              /\ login'.req[r].limited)
                 => ~(login.cache.present /\ login.cache.value > 10)
       /\ (login'.last # login.last /\ login'.last.outcome = "rate_limited") =>
             /\ login.cache.present /\ login.cache.value > 10
             /\ login'.cache = login.cache
             /\ login.req[login'.last.who].pc = "idle"
             /\ login'.req = login.req
       /\ (login'.cache.present /\ login'.cache # login.cache
                                /\ login'.cache.ttl >= login.cache.ttl) =>
             \E r \in LoginClients :
                 /\ login.req[r].pc = "set" /\ login.req[r].user = "none"
                 /\ login'.req[r].pc = "idle"]_vars

\* C26's case: eleven failures are stored and the latest attempt was rejected
\* with the rate-limit error.
C26_Witness ==
    /\ login.last.outcome = "rate_limited"
    /\ login.cache.present /\ login.cache.value = 11

\* The failures stored for the client IP: 0 when there is no counter.
StoredFailures(cache) == IF cache.present THEN cache.value ELSE 0

\* C27: every failed authentication from a rate-limited client raises the
\* stored failure counter by exactly one, also when requests from the same IP
\* are handled at the same time: no increment is lost.
C27_NoLostIncrement ==
    [][\A r \in LoginClients :
          (login.req[r].pc = "set" /\ login'.req[r].pc = "idle") =>
              StoredFailures(login'.cache) = StoredFailures(login.cache) + 1]_vars

\* ----------------------------------------------------------------- C28

\* C28: with a queue configured, a bound task that calls retry(max_retries=N)
\* every time it runs is enqueued again with its retry count raised by one each
\* time, so that it runs N + 1 times in all and then fails with the given
\* exception or MaxRetriesExceededError; no job of it waits in the queue with a
\* retry count above N, and none once a run has found the count at N.
C28_RetriedUpToMax ==
    \A t \in TaskIds :
        tasks[t].queue =>
            /\ \A i \in DOMAIN tasks[t].pending : tasks[t].pending[i] <= tasks[t].max_retries
            /\ tasks[t].runs <= tasks[t].max_retries + 1
            /\ (tasks[t].state = "queued" /\ tasks[t].runs > 0) =>
                  tasks[t].pending = <<tasks[t].runs>>
            /\ tasks[t].state \in {"failed", "done"} =>
                  /\ tasks[t].runs = tasks[t].max_retries + 1
                  /\ tasks[t].error = IF tasks[t].exc THEN "exc" ELSE "MaxRetriesExceededError"

\* ----------------------------------------------------------------- C29

\* The entries that record the deletion of an entity on its parent.
DeleteEntries(entries, self) ==
    {e \in entries : /\ e.action_type = <<self.log_prefix, ".", "delete">>
                     /\ e.content_type = self.log_parent.name
                     /\ e.object_id = self.log_parent.pk}

\* C29: a delete() call on an entity with a log parent and a log prefix creates
\* exactly one entry, with action "<log_prefix>.delete" and the parent as its
\* subject, and the entity is gone when the entry appears; when the deletion
\* raises, or the entity has no log parent or no log prefix, the call creates no
\* entry.
C29_DeletionLoggedOnParent ==
    [][deletion' # deletion =>
          LET self == deletion'.last.self
          IN  IF ~deletion'.last.raised /\ self.log_parent # NoObject
                                        /\ self.log_prefix # ""
              THEN /\ Cardinality(Added) = 1
                   /\ DeleteEntries(Added, self) = Added
                   /\ self \notin deletion'.existing
              ELSE /\ Added = {}
                   /\ deletion'.last.raised => deletion'.existing = deletion.existing]_vars

\* C29's case: an entity with a log parent and a log prefix has been deleted,
\* and the entry is in the store.
C29_Witness ==
    /\ ~deletion.last.raised
    /\ deletion.last.self.log_parent # NoObject
    /\ deletion.last.self.log_prefix # ""
    /\ deletion.last.self \notin deletion.existing
    /\ DeleteEntries(logs, deletion.last.self) # {}

\* ----------------------------------------------------------------- C30

\* C30: GenerateCode.save makes at most 3 attempts, each after an integrity
\* conflict with a newly assigned code that no row has, and it ends by saving
\* the object or by raising: it never returns without having saved.
C30_SavedOrRaised ==
    /\ saver.tries <= 3
    /\ saver.outcome \in {"", "saved", "raised"}
====
